---- MODULE Spec2Model ----
(***************************************************************************)
(* Model of vue-easy-di: defineUseDependencyInjection (the factory) and    *)
(* the UseDependencyInjection closure it returns (the resolver), run       *)
(* against the host framework's provide / inject over a chain of component *)
(* scopes that are set up parent first.                                    *)
(***************************************************************************)
EXTENDS Integers, Sequences, FiniteSets, TLC

VARIABLES resolvers, provides, cur, last, created

vars == <<resolvers, provides, cur, last, created>>

\* ---- bounds ----

\* Depth of the component chain: scope 0 is the root, scope s+1 its child.
NumScopes == 3

\* ---- run-time values ----

Undefined == [t |-> "undefined"]
Null == [t |-> "null"]
\* An own property that the object does not have (`key in obj` is false).
Missing == [t |-> "missing"]
Str(s) == [t |-> "string", s |-> s]
Obj(id) == [t |-> "object", id |-> id]
\* A zero-argument function, by the value a call of it produces.
Fn(ret) == [t |-> "function", ret |-> ret]
Err(name, message) == [t |-> "error", name |-> name, message |-> message]
\* Symbol(): every call yields a new symbol, told apart by `id`.
Sym(id) == [t |-> "symbol", id |-> id]
OptionsObj(key, injectDefault, throwOnNoProvider) ==
    [t |-> "options", key |-> key, injectDefault |-> injectDefault,
     throwOnNoProvider |-> throwOnNoProvider]
EmptyOptions == OptionsObj(Missing, Missing, Missing)

\* `v == null`
IsNullish(v) == v.t \in {"undefined", "null"}
\* `typeof v === 'function'`
IsFunction(v) == v.t = "function"
\* `f()`
Invoke(f) == f.ret
\* `f?.()`
OptInvoke(f) == IF IsNullish(f) THEN Undefined ELSE Invoke(f)
\* `a ?? b`
Coalesce(a, b) == IF IsNullish(a) THEN b ELSE a
\* `name in o`
HasProp(o, name) == o.t = "options" /\ o[name] # Missing
\* `o.name`
GetProp(o, name) == IF HasProp(o, name) THEN o[name] ELSE Undefined
\* `{ ...o }`
Spread(o) == IF o.t = "options" THEN o ELSE EmptyOptions
\* `key.toString()`: a symbol without description prints as "Symbol()".
KeyToString(key) == IF key.t = "symbol" THEN "Symbol()" ELSE key.s

Return(v) == [kind |-> "return", value |-> v]
Throw(e) == [kind |-> "throw", value |-> e]

\* ---- errors ----

FirstArgTypeError ==
    Err("TypeError", <<"[defineUseDependencyInjection] first argument must be a initializer function when two arguments are provided">>)
SecondArgTypeError ==
    Err("TypeError", <<"[useDependencyInjection] second argument must be a function when mode is 'provide'">>)
\* The message is kept in its three parts; the backquote that the source puts
\* on either side of the key cannot be written in a TLA+ string and is left out.
NotInitializedError(injectKey) ==
    Err("Error", <<"UseDependencyInjection value ", KeyToString(injectKey), " is not initialized">>)

\* ---- host context (vue-demi) ----

Scopes == 0 .. (NumScopes - 1)

\* provide(key, value) in the component being set up: one entry per
\* (scope, key), a second provide in the same scope replaces the first.
provide(prov, scope, key, value) ==
    {e \in prov : ~(e.scope = scope /\ e.key = key)}
        \cup {[scope |-> scope, key |-> key, value |-> value]}

Publishers(prov, scope, key) == {e \in prov : e.key = key /\ e.scope < scope}

HasProvider(prov, scope, key) == Publishers(prov, scope, key) # {}

\* The value attached by the nearest ancestor scope.
Nearest(prov, scope, key) ==
    (CHOOSE e \in Publishers(prov, scope, key) :
        \A f \in Publishers(prov, scope, key) : f.scope <= e.scope).value

\* inject(key)
inject(prov, scope, key) ==
    IF HasProvider(prov, scope, key) THEN Nearest(prov, scope, key) ELSE Undefined

\* inject(key, defaultValue, treatDefaultAsFactory)
injectWithDefault(prov, scope, key, defaultValue, treatDefaultAsFactory) ==
    IF HasProvider(prov, scope, key) THEN Nearest(prov, scope, key)
    ELSE IF treatDefaultAsFactory /\ IsFunction(defaultValue) THEN Invoke(defaultValue)
    ELSE defaultValue

\* ---- defineUseDependencyInjection ----

\* The closure state of one resolver.
Closure(initializer, options, injectKey) ==
    [initializer |-> initializer, options |-> options, injectKey |-> injectKey]

\* Bug variant: one symbol made when the module loads is every binding's
\* generated key.
InjectKeyOf_SharedSymbol(options, fresh) ==
    Coalesce(GetProp(options, "key"), Sym(0))

\* `options.key ?? Symbol()`
InjectKeyOf(options, fresh) == Coalesce(GetProp(options, "key"), Sym(fresh))

\* Bug variant: a single argument that is not a function is not taken as the
\* options.
defineUseDependencyInjection_DropsOptions(arg0, arg1, fresh) ==
    IF ~IsNullish(arg0) /\ ~IsNullish(arg1)
    THEN IF ~IsFunction(arg0)
         THEN Throw(FirstArgTypeError)
         ELSE Return(Closure(arg0, arg1, InjectKeyOf(arg1, fresh)))
    ELSE IF ~IsNullish(arg0) /\ IsFunction(arg0)
    THEN Return(Closure(arg0, EmptyOptions, InjectKeyOf(EmptyOptions, fresh)))
    ELSE Return(Closure(Undefined, EmptyOptions, InjectKeyOf(EmptyOptions, fresh)))

\* The factory: Return(closure) or Throw(TypeError). `fresh` numbers the
\* symbol that Symbol() would create in this call.
defineUseDependencyInjection(arg0, arg1, fresh) ==
    IF ~IsNullish(arg0) /\ ~IsNullish(arg1)
    THEN IF ~IsFunction(arg0)
         THEN Throw(FirstArgTypeError)
         ELSE Return(Closure(arg0, arg1, InjectKeyOf(arg1, fresh)))
    ELSE IF ~IsNullish(arg0)
    THEN IF IsFunction(arg0)
         THEN Return(Closure(arg0, EmptyOptions, InjectKeyOf(EmptyOptions, fresh)))
         ELSE Return(Closure(Undefined, arg0, InjectKeyOf(arg0, fresh)))
    ELSE Return(Closure(Undefined, EmptyOptions, InjectKeyOf(EmptyOptions, fresh)))

\* ---- UseDependencyInjection: mode 'provide' ----

\* The outcome of one resolver call: what it returned or threw, the host
\* context afterwards, and the host calls it made, in order.
Outcome(result, prov, ops) == [result |-> result, provides |-> prov, ops |-> ops]

\* An outcome together with the merged options the call worked with (Missing
\* when the call merged none).
WithFinal(out, finalOptions) ==
    [result |-> out.result, provides |-> out.provides, ops |-> out.ops,
     finalOptions |-> finalOptions]

ProvideOp(key, value) == [op |-> "provide", key |-> key, value |-> value]
InjectOp(key) == [op |-> "inject", key |-> key]

\* `$arg1 != null && typeof $arg1 !== 'function'`
BadOverrideInitializer(arg1) == ~IsNullish(arg1) /\ ~IsFunction(arg1)

\* `overrideInitializer?.() ?? initializer?.()`
ProvidedValue(overrideInitializer, initializer) ==
    Coalesce(OptInvoke(overrideInitializer), OptInvoke(initializer))

\* Bug variant: the value is returned but never attached to the host context.
ProvideMode_NoAttach(u, arg1, prov, scope) ==
    IF BadOverrideInitializer(arg1)
    THEN Outcome(Throw(SecondArgTypeError), prov, <<>>)
    ELSE LET value == ProvidedValue(arg1, u.initializer)
         IN  IF IsNullish(value)
             THEN Outcome(Throw(NotInitializedError(u.injectKey)), prov, <<>>)
             ELSE Outcome(Return(value), prov, <<>>)

\* Bug variant: the `value == null` guard is missing.
ProvideMode_NoNullCheck(u, arg1, prov, scope) ==
    IF BadOverrideInitializer(arg1)
    THEN Outcome(Throw(SecondArgTypeError), prov, <<>>)
    ELSE LET value == ProvidedValue(arg1, u.initializer)
         IN  Outcome(Return(value), provide(prov, scope, u.injectKey, value),
                     <<ProvideOp(u.injectKey, value)>>)

\* Bug variant: a second argument that is not a function is ignored instead of
\* rejected.
ProvideMode_NoTypeCheck(u, arg1, prov, scope) ==
    LET value == ProvidedValue(IF IsFunction(arg1) THEN arg1 ELSE Undefined,
                               u.initializer)
    IN  IF IsNullish(value)
        THEN Outcome(Throw(NotInitializedError(u.injectKey)), prov, <<>>)
        ELSE Outcome(Return(value), provide(prov, scope, u.injectKey, value),
                     <<ProvideOp(u.injectKey, value)>>)

ProvideMode(u, arg1, prov, scope) ==
    IF BadOverrideInitializer(arg1)
    THEN Outcome(Throw(SecondArgTypeError), prov, <<>>)
    ELSE LET value == ProvidedValue(arg1, u.initializer)
         IN  IF IsNullish(value)
             THEN Outcome(Throw(NotInitializedError(u.injectKey)), prov, <<>>)
             ELSE Outcome(Return(value), provide(prov, scope, u.injectKey, value),
                          <<ProvideOp(u.injectKey, value)>>)

\* ---- UseDependencyInjection: mode 'inject' ----

\* Bug variant: the override is always read from the first argument.
OverrideOptionsOf_Arg0Only(arg0, arg1) == Coalesce(arg0, EmptyOptions)

\* `$arg0 === 'inject' ? ($arg1 ?? {}) : ($arg0 ?? {})`
OverrideOptionsOf(arg0, arg1) ==
    IF arg0 = Str("inject") THEN Coalesce(arg1, EmptyOptions)
    ELSE Coalesce(arg0, EmptyOptions)

\* Bug variant: the winning override does not clear the other policy.
FinalOptions_NoClear(options, overrideOptions) ==
    LET finalOptions == Spread(options)
    IN  IF HasProp(overrideOptions, "injectDefault")
            /\ ~IsNullish(GetProp(overrideOptions, "injectDefault"))
        THEN [finalOptions EXCEPT !.injectDefault = overrideOptions.injectDefault]
        ELSE IF HasProp(overrideOptions, "throwOnNoProvider")
                /\ ~IsNullish(GetProp(overrideOptions, "throwOnNoProvider"))
        THEN [finalOptions EXCEPT !.throwOnNoProvider = overrideOptions.throwOnNoProvider]
        ELSE finalOptions

\* The merge of the base options with the per-call override.
FinalOptions(options, overrideOptions) ==
    LET finalOptions == Spread(options)
    IN  IF HasProp(overrideOptions, "injectDefault")
            /\ ~IsNullish(GetProp(overrideOptions, "injectDefault"))
        THEN [finalOptions EXCEPT !.injectDefault = overrideOptions.injectDefault,
                                  !.throwOnNoProvider = Undefined]
        ELSE IF HasProp(overrideOptions, "throwOnNoProvider")
                /\ ~IsNullish(GetProp(overrideOptions, "throwOnNoProvider"))
        THEN [finalOptions EXCEPT !.throwOnNoProvider = overrideOptions.throwOnNoProvider,
                                  !.injectDefault = Undefined]
        ELSE finalOptions

\* Bug variant: throwOnNoProvider fires without looking at the injected value.
Resolve_ThrowsEvenIfFound(finalOptions, injectKey, prov, scope) ==
    IF ~IsNullish(GetProp(finalOptions, "injectDefault"))
    THEN Outcome(Return(injectWithDefault(prov, scope, injectKey,
                                          finalOptions.injectDefault, TRUE)),
                 prov, <<InjectOp(injectKey)>>)
    ELSE LET value == inject(prov, scope, injectKey)
         IN  IF HasProp(finalOptions, "throwOnNoProvider")
                 /\ ~IsNullish(GetProp(finalOptions, "throwOnNoProvider"))
             THEN Outcome(Throw(Invoke(finalOptions.throwOnNoProvider)), prov,
                          <<InjectOp(injectKey)>>)
             ELSE Outcome(Return(value), prov, <<InjectOp(injectKey)>>)

\* Bug variant: the error factory's result is returned instead of thrown.
Resolve_ReturnsError(finalOptions, injectKey, prov, scope) ==
    IF ~IsNullish(GetProp(finalOptions, "injectDefault"))
    THEN Outcome(Return(injectWithDefault(prov, scope, injectKey,
                                          finalOptions.injectDefault, TRUE)),
                 prov, <<InjectOp(injectKey)>>)
    ELSE LET value == inject(prov, scope, injectKey)
         IN  IF IsNullish(value) /\ HasProp(finalOptions, "throwOnNoProvider")
                 /\ ~IsNullish(GetProp(finalOptions, "throwOnNoProvider"))
             THEN Outcome(Return(Invoke(finalOptions.throwOnNoProvider)), prov,
                          <<InjectOp(injectKey)>>)
             ELSE Outcome(Return(value), prov, <<InjectOp(injectKey)>>)

\* Bug variant: a default handed out is also attached to the calling scope.
Resolve_CachesDefault(finalOptions, injectKey, prov, scope) ==
    IF ~IsNullish(GetProp(finalOptions, "injectDefault"))
    THEN LET value == injectWithDefault(prov, scope, injectKey,
                                        finalOptions.injectDefault, TRUE)
         IN  IF HasProvider(prov, scope, injectKey)
             THEN Outcome(Return(value), prov, <<InjectOp(injectKey)>>)
             ELSE Outcome(Return(value), provide(prov, scope, injectKey, value),
                          <<InjectOp(injectKey), ProvideOp(injectKey, value)>>)
    ELSE LET value == inject(prov, scope, injectKey)
         IN  IF IsNullish(value) /\ HasProp(finalOptions, "throwOnNoProvider")
                 /\ ~IsNullish(GetProp(finalOptions, "throwOnNoProvider"))
             THEN Outcome(Throw(Invoke(finalOptions.throwOnNoProvider)), prov,
                          <<InjectOp(injectKey)>>)
             ELSE Outcome(Return(value), prov, <<InjectOp(injectKey)>>)

\* The lookup and the fallback, given the merged options.
Resolve(finalOptions, injectKey, prov, scope) ==
    IF ~IsNullish(GetProp(finalOptions, "injectDefault"))
    THEN Outcome(Return(injectWithDefault(prov, scope, injectKey,
                                          finalOptions.injectDefault, TRUE)),
                 prov, <<InjectOp(injectKey)>>)
    ELSE LET value == inject(prov, scope, injectKey)
         IN  IF IsNullish(value) /\ HasProp(finalOptions, "throwOnNoProvider")
                 /\ ~IsNullish(GetProp(finalOptions, "throwOnNoProvider"))
             THEN Outcome(Throw(Invoke(finalOptions.throwOnNoProvider)), prov,
                          <<InjectOp(injectKey)>>)
             ELSE Outcome(Return(value), prov, <<InjectOp(injectKey)>>)

\* Bug variant: with nothing found and no policy, the bound initializer's
\* value is handed out.
InjectMode_InitializerFallback(u, arg0, arg1, prov, scope) ==
    LET finalOptions == FinalOptions(u.options, OverrideOptionsOf(arg0, arg1))
        out == Resolve(finalOptions, u.injectKey, prov, scope)
    IN  IF out.result = Return(Undefined)
        THEN WithFinal(Outcome(Return(OptInvoke(u.initializer)), prov, out.ops),
                       finalOptions)
        ELSE WithFinal(out, finalOptions)

\* Bug variant: a `key` in the per-call override replaces the binding key.
InjectMode_OverrideKey(u, arg0, arg1, prov, scope) ==
    LET overrideOptions == OverrideOptionsOf(arg0, arg1)
        finalOptions == FinalOptions(u.options, overrideOptions)
    IN  WithFinal(Resolve(finalOptions,
                          Coalesce(GetProp(overrideOptions, "key"), u.injectKey),
                          prov, scope),
                  finalOptions)

InjectMode(u, arg0, arg1, prov, scope) ==
    LET finalOptions == FinalOptions(u.options, OverrideOptionsOf(arg0, arg1))
    IN  WithFinal(Resolve(finalOptions, u.injectKey, prov, scope), finalOptions)

\* ---- UseDependencyInjection ----

UseDependencyInjection(u, arg0, arg1, prov, scope) ==
    IF arg0 = Str("provide")
    THEN WithFinal(ProvideMode(u, arg1, prov, scope), Missing)
    ELSE InjectMode(u, arg0, arg1, prov, scope)

\* Bug variant: the merge works on the closure's own options object instead
\* of a copy, so the override's policy stays in the base configuration.
ClosureAfter_SharedOptions(u, arg0, arg1) ==
    IF arg0 = Str("provide") THEN u
    ELSE [u EXCEPT !.options = FinalOptions(u.options, OverrideOptionsOf(arg0, arg1))]

\* The closure's variables after a call: `initializer`, `options` and
\* `injectKey` are never assigned, and the merge assigns to a copy of options.
ClosureAfter(u, arg0, arg1) == u

\* ---- inputs ----

Initializers == {Fn(Obj("v0")), Fn(Undefined)}

BaseOptions ==
    { EmptyOptions,
      OptionsObj(Missing, Fn(Obj("d1")), Missing),
      OptionsObj(Missing, Missing, Fn(Err("Error", <<"E1">>))),
      OptionsObj(Str("k"), Missing, Missing),
      OptionsObj(Str("k"), Obj("d1"), Missing),
      OptionsObj(Missing, Fn(Obj("d1")), Fn(Err("Error", <<"E1">>))) }

FactoryArg0 == {Undefined, Null, Str("initializer")} \cup Initializers \cup BaseOptions
FactoryArg1 == {Undefined, Null} \cup BaseOptions

OverrideInitializers ==
    {Undefined, Null, Fn(Obj("v1")), Fn(Undefined), Str("overrideInitializer")}

OverrideOptions ==
    { EmptyOptions,
      OptionsObj(Missing, Fn(Obj("d2")), Missing),
      OptionsObj(Missing, Obj("d2"), Missing),
      OptionsObj(Missing, Missing, Fn(Err("Error", <<"E2">>))),
      OptionsObj(Missing, Undefined, Fn(Err("Error", <<"E2">>))),
      OptionsObj(Missing, Fn(Obj("d2")), Fn(Err("Error", <<"E2">>))),
      OptionsObj(Missing, Fn(Undefined), Missing),
      OptionsObj(Str("k"), Missing, Missing) }

\* The argument lists a resolver is called with.
CallArgs ==
    ({Str("provide")} \X OverrideInitializers)
        \cup ({Str("inject")} \X ({Undefined, Null} \cup OverrideOptions))
        \cup (({Undefined, Null} \cup OverrideOptions) \X {Undefined})

\* ---- state machine ----

\* resolvers: the closures of the resolvers made so far; provides: the host
\* context; cur: the scope whose setup is running; last: the latest call and
\* its outcome; created: each resolver's closure as the factory returned it
\* (a record of the past, read by no action).

NoCall ==
    [op |-> "none", r |-> 0, scope |-> 0, arg0 |-> Undefined, arg1 |-> Undefined,
     result |-> Return(Undefined), ops |-> <<>>, finalOptions |-> Missing,
     pre |-> {}]

Init ==
    /\ resolvers = <<>>
    /\ provides = {}
    /\ cur = 0
    /\ last = NoCall
    /\ created = <<>>

\* A module calls the factory; a resolver exists only if the call returns.
\* One binding is followed: once it exists the factory is not called again.
Define(arg0, arg1) ==
    /\ resolvers = <<>>
    /\ LET res == defineUseDependencyInjection(arg0, arg1, Len(resolvers) + 1)
       IN  /\ resolvers' = IF res.kind = "return"
                               THEN Append(resolvers, res.value) ELSE resolvers
           /\ last' = [op |-> "define", r |-> Len(resolvers) + 1, scope |-> cur,
                        arg0 |-> arg0, arg1 |-> arg1, result |-> res,
                        ops |-> <<>>, finalOptions |-> Missing, pre |-> provides]
           /\ created' = IF res.kind = "return"
                             THEN Append(created, res.value) ELSE created
    /\ UNCHANGED <<provides, cur>>

\* The setup of the component in scope `cur` calls resolver r.
Call(r, arg0, arg1) ==
    /\ cur \in Scopes
    /\ LET out == UseDependencyInjection(resolvers[r], arg0, arg1, provides, cur)
       IN  /\ provides' = out.provides
           /\ last' = [op |-> "call", r |-> r, scope |-> cur,
                        arg0 |-> arg0, arg1 |-> arg1, result |-> out.result,
                        ops |-> out.ops, finalOptions |-> out.finalOptions,
                        pre |-> provides]
    /\ resolvers' = [resolvers EXCEPT ![r] = ClosureAfter(resolvers[r], arg0, arg1)]
    /\ UNCHANGED <<cur, created>>

\* The setup of scope `cur` ends and its child's setup begins.
Mount ==
    /\ cur \in Scopes
    /\ cur' = cur + 1
    /\ UNCHANGED <<resolvers, provides, last, created>>

Next ==
    \/ \E arg0 \in FactoryArg0, arg1 \in FactoryArg1 : Define(arg0, arg1)
    \/ \E r \in 1 .. Len(resolvers), a \in CallArgs : Call(r, a[1], a[2])
    \/ Mount

Spec == Init /\ [][Next]_vars

\* ---- two bindings ----

\* A second module calls the factory after the first binding exists.
DefineAnother(arg0, arg1) ==
    /\ Len(resolvers) = 1
    /\ LET res == defineUseDependencyInjection(arg0, arg1, Len(resolvers) + 1)
       IN  /\ resolvers' = IF res.kind = "return"
                               THEN Append(resolvers, res.value) ELSE resolvers
           /\ last' = [op |-> "define", r |-> Len(resolvers) + 1, scope |-> cur,
                        arg0 |-> arg0, arg1 |-> arg1, result |-> res,
                        ops |-> <<>>, finalOptions |-> Missing, pre |-> provides]
           /\ created' = IF res.kind = "return"
                             THEN Append(created, res.value) ELSE created
    /\ UNCHANGED <<provides, cur>>

PairArg0 == {Fn(Obj("v0"))}
PairArg1 ==
    { Undefined,
      OptionsObj(Str("k"), Missing, Missing),
      OptionsObj(Missing, Missing, Fn(Err("Error", <<"E1">>))) }

PairCallArgs ==
    { <<Str("provide"), Undefined>>,
      <<Undefined, Undefined>>,
      <<Str("inject"), OptionsObj(Missing, Fn(Obj("d2")), Missing)>> }

NextPair ==
    \/ \E arg0 \in PairArg0, arg1 \in PairArg1 : Define(arg0, arg1)
    \/ \E arg0 \in PairArg0, arg1 \in PairArg1 : DefineAnother(arg0, arg1)
    \/ \E r \in 1 .. Len(resolvers), a \in PairCallArgs : Call(r, a[1], a[2])
    \/ Mount

SpecPair == Init /\ [][NextPair]_vars

\* ---- vocabulary of the properties ----

IsCall == last.op = "call"
IsDefine == last.op = "define"
\* The resolver the last call was made on.
U == resolvers[last.r]
IsPublish == IsCall /\ last.arg0 = Str("provide")
IsConsume == IsCall /\ last.arg0 # Str("provide")
\* The override configuration the caller passed, by call shape.
GivenOverride == IF last.arg0 = Str("inject") THEN last.arg1 ELSE last.arg0
Absent(v) == v \in {Undefined, Null, Missing}
Field(o, name) == IF o.t = "options" THEN o[name] ELSE Missing
\* Some ancestor of the calling scope had a value under `key` before the call.
PublisherAbove(key) == \E e \in last.pre : e.key = key /\ e.scope < last.scope
\* v is the value of the nearest such ancestor.
NearestIs(key, v) ==
    \E e \in last.pre :
        /\ e.key = key /\ e.scope < last.scope /\ e.value = v
        /\ \A f \in last.pre : f.key = key /\ f.scope < last.scope => f.scope <= e.scope
\* The binding key as the factory's contract gives it.
HasExplicitKey == ~Absent(Field(U.options, "key"))
NotInitializedMessage ==
    <<"UseDependencyInjection value ",
      IF HasExplicitKey THEN U.options.key.s ELSE "Symbol()",
      " is not initialized">>

\* ---- C1 ----

PlainPublish == IsPublish /\ Absent(last.arg1) /\ IsFunction(U.initializer)
PlainConsume ==
    IsConsume /\ (Absent(last.arg0) \/ (last.arg0 = Str("inject") /\ Absent(last.arg1)))

\* C1 as stated: a publish call without override on a resolver with a bound
\* initializer returns the initializer's result.
C1_Original ==
    PlainPublish => last.result = Return(Invoke(U.initializer))

\* C1 amended: a publish call without override on a resolver whose bound
\* initializer yields a non-absent value returns that value and attaches it to
\* the calling scope under the binding key (when the initializer yields an
\* absent value the call throws "is not initialized" and attaches nothing);
\* and a consume call `resolver()` / `resolver('inject')` returns the value
\* attached by the nearest publishing ancestor scope.
C1_PublishThenVisible ==
    /\ PlainPublish /\ ~Absent(Invoke(U.initializer)) =>
          /\ last.result = Return(Invoke(U.initializer))
          /\ [scope |-> last.scope, key |-> U.injectKey,
               value |-> Invoke(U.initializer)] \in provides
    /\ PlainPublish /\ Absent(Invoke(U.initializer)) =>
          /\ last.result.kind = "throw"
          /\ last.result.value.message = NotInitializedMessage
          /\ provides = last.pre
    /\ PlainConsume =>
          \A e \in last.pre :
              (/\ e.key = U.injectKey /\ e.scope < last.scope
               /\ \A f \in last.pre :
                     f.key = U.injectKey /\ f.scope < last.scope => f.scope <= e.scope)
              => last.result = Return(e.value)

\* A grandchild consumes the bound initializer's value published at the root
\* while the scope between them published nothing.
C1_Witness ==
    /\ PlainConsume /\ last.scope = 2
    /\ IsFunction(U.initializer)
    /\ [scope |-> 0, key |-> U.injectKey, value |-> Obj("v0")] \in last.pre
    /\ ~\E e \in last.pre : e.scope = 1
    /\ last.result = Return(Obj("v0"))

\* ---- C2 ----

\* C2: in publish mode a given override initializer alone decides the value:
\* its result is returned, and when its result is absent the call fails with
\* "is not initialized" whether or not a bound initializer exists.
C2_OverrideAloneDecides ==
    IsPublish /\ IsFunction(last.arg1) =>
        IF Absent(Invoke(last.arg1))
        THEN /\ last.result.kind = "throw"
             /\ last.result.value.message = NotInitializedMessage
        ELSE last.result = Return(Invoke(last.arg1))

\* ---- C3 ----

\* C3: a publish call with neither a bound nor an override initializer throws
\* the Error "... is not initialized" carrying the key's string form, under
\* every base configuration, and attaches nothing.
C3_NotInitialized ==
    IsPublish /\ Absent(U.initializer) /\ Absent(last.arg1) =>
        /\ last.result.kind = "throw"
        /\ last.result.value.name = "Error"
        /\ last.result.value.message = NotInitializedMessage
        /\ provides = last.pre

\* Reached both with a generated key and with the explicit key "k".
C3_Witness ==
    /\ IsPublish /\ Absent(U.initializer) /\ Absent(last.arg1)
    /\ HasExplicitKey
    /\ ~Absent(Field(U.options, "injectDefault"))
    /\ last.result.kind = "throw"

\* ---- C4 ----

\* C4: a publish call whose second argument is present and not a function
\* throws the TypeError "second argument must be a function when mode is
\* 'provide'", with or without a bound initializer.
C4_OverrideNotFunction ==
    IsPublish /\ ~Absent(last.arg1) /\ last.arg1.t # "function" =>
        /\ last.result.kind = "throw"
        /\ last.result.value.name = "TypeError"
        /\ last.result.value.message =
              <<"[useDependencyInjection] second argument must be a function when mode is 'provide'">>
        /\ provides = last.pre

C4_Witness ==
    /\ IsPublish /\ last.arg1 = Str("overrideInitializer")
    /\ IsFunction(U.initializer) /\ ~Absent(Invoke(U.initializer))
    /\ last.result.kind = "throw"

\* ---- C5 ----

\* The policy as the contract states it: the override's injectDefault, else
\* the override's throwOnNoProvider, else whatever the base configuration has.
Policy(base, override) ==
    IF ~Absent(Field(override, "injectDefault"))
    THEN [injectDefault |-> override.injectDefault, throwOnNoProvider |-> Undefined]
    ELSE IF ~Absent(Field(override, "throwOnNoProvider"))
    THEN [injectDefault |-> Undefined, throwOnNoProvider |-> override.throwOnNoProvider]
    ELSE [injectDefault |-> IF Absent(Field(base, "injectDefault"))
                            THEN Undefined ELSE base.injectDefault,
          throwOnNoProvider |-> IF Absent(Field(base, "throwOnNoProvider"))
                                THEN Undefined ELSE base.throwOnNoProvider]
LastPolicy ==
    Policy(U.options, IF Absent(GivenOverride) THEN EmptyOptions ELSE GivenOverride)

\* C5: at a consume call the merged options hold, for injectDefault and for
\* throwOnNoProvider, exactly what the precedence rule gives from the base and
\* the override: override injectDefault first (throwOnNoProvider cleared),
\* else override throwOnNoProvider (injectDefault cleared), else the base.
C5_EffectivePolicy ==
    IsConsume =>
        /\ GetProp(last.finalOptions, "injectDefault") = LastPolicy.injectDefault
        /\ GetProp(last.finalOptions, "throwOnNoProvider") = LastPolicy.throwOnNoProvider

\* Base throwOnNoProvider E1 overridden by injectDefault D2.
C5_Witness ==
    /\ IsConsume
    /\ ~Absent(Field(U.options, "throwOnNoProvider"))
    /\ Absent(Field(U.options, "injectDefault"))
    /\ ~Absent(GivenOverride)
    /\ GivenOverride.injectDefault = Fn(Obj("d2"))
    /\ LastPolicy = [injectDefault |-> Fn(Obj("d2")), throwOnNoProvider |-> Undefined]

\* ---- C6 ----

\* C6: a consume call made below a publisher of the binding key returns the
\* value of the nearest publishing ancestor, under every base policy, every
\* override and both call shapes; it never throws and never yields a default.
C6_PublishedValueWins ==
    IsConsume /\ PublisherAbove(U.injectKey) =>
        /\ last.result.kind = "return"
        /\ NearestIs(U.injectKey, last.result.value)

\* A publisher above, a throwing base policy and an overriding default.
C6_Witness ==
    /\ IsConsume /\ PublisherAbove(U.injectKey)
    /\ ~Absent(Field(U.options, "throwOnNoProvider"))
    /\ ~Absent(GivenOverride)
    /\ ~Absent(GivenOverride.injectDefault)
    /\ last.result = Return(Obj("v1"))

\* ---- C7 ----

\* C7: a consume call whose effective policy is injectDefault, made with no
\* publisher above, returns the default -- the result of calling injectDefault
\* when it is a function, injectDefault itself otherwise -- and does not throw.
C7_DefaultReturned ==
    IsConsume /\ ~PublisherAbove(U.injectKey) /\ ~Absent(LastPolicy.injectDefault) =>
        last.result = Return(IF LastPolicy.injectDefault.t = "function"
                             THEN LastPolicy.injectDefault.ret
                             ELSE LastPolicy.injectDefault)

\* Base throwOnNoProvider E1, override injectDefault D2 passed after 'inject'.
C7_Witness ==
    /\ IsConsume /\ ~PublisherAbove(U.injectKey)
    /\ last.arg0 = Str("inject")
    /\ U.options = OptionsObj(Missing, Missing, Fn(Err("Error", <<"E1">>)))
    /\ last.arg1 = OptionsObj(Missing, Fn(Obj("d2")), Missing)
    /\ last.result = Return(Obj("d2"))

\* ---- C8 ----

\* C8: a consume call whose effective policy is throwOnNoProvider, made with
\* no publisher above, throws the error the effective error factory produces.
C8_ErrorThrown ==
    IsConsume /\ ~PublisherAbove(U.injectKey)
        /\ Absent(LastPolicy.injectDefault) /\ ~Absent(LastPolicy.throwOnNoProvider) =>
        last.result = Throw(LastPolicy.throwOnNoProvider.ret)

\* Base injectDefault D1, override throwOnNoProvider E2: E2 is thrown.
C8_Witness ==
    /\ IsConsume /\ ~PublisherAbove(U.injectKey)
    /\ U.options = OptionsObj(Missing, Fn(Obj("d1")), Missing)
    /\ GivenOverride = OptionsObj(Missing, Missing, Fn(Err("Error", <<"E2">>)))
    /\ last.result = Throw(Err("Error", <<"E2">>))

\* ---- C9 ----

\* C9: with no policy in the base configuration nor in the override, and no
\* publisher above, a consume call returns undefined, for `resolver()` as for
\* `resolver('inject')`, with or without a bound initializer.
C9_AbsentWithoutPolicy ==
    IsConsume /\ ~PublisherAbove(U.injectKey)
        /\ Absent(Field(U.options, "injectDefault"))
        /\ Absent(Field(U.options, "throwOnNoProvider"))
        /\ (Absent(GivenOverride)
             \/ (/\ Absent(Field(GivenOverride, "injectDefault"))
                 /\ Absent(Field(GivenOverride, "throwOnNoProvider")))) =>
        last.result = Return(Undefined)

\* `resolver('inject')` on a resolver that has a bound initializer.
C9_Witness ==
    /\ IsConsume /\ last.arg0 = Str("inject") /\ Absent(last.arg1)
    /\ U.initializer = Fn(Obj("v0"))
    /\ U.options = EmptyOptions
    /\ ~PublisherAbove(U.injectKey)
    /\ last.result = Return(Undefined)

\* ---- C10 ----

\* C10: the factory called with two arguments throws the TypeError "first
\* argument must be a initializer function ..." whenever the first is not a
\* function, an absent first argument included; when the first is a function
\* the resolver gets it as initializer and the second as base configuration.
C10_TwoArguments ==
    IsDefine /\ ~Absent(last.arg1) =>
        IF last.arg0.t # "function"
        THEN /\ last.result.kind = "throw"
             /\ last.result.value.name = "TypeError"
             /\ last.result.value.message = FirstArgTypeError.message
        ELSE /\ last.result.kind = "return"
             /\ last.result.value.initializer = last.arg0
             /\ last.result.value.options = last.arg1

\* ---- C11 ----

\* What a call of freshly made resolver u gives in the root scope of an empty
\* host context.
FirstCall(u, arg0, arg1) == UseDependencyInjection(u, arg0, arg1, {}, 0).result

\* C11: the factory called with one argument takes it as the bound initializer
\* when it is a function (base configuration empty) and as the base
\* configuration otherwise (no bound initializer); called with no argument it
\* binds no initializer and an empty configuration. The resolver behaves
\* accordingly: `resolver('provide')` yields the initializer's value when one
\* is bound and fails with "is not initialized" otherwise, and `resolver()`
\* with no publisher follows the policy of the configuration.
C11_OneOrNoArgument ==
    IsDefine /\ Absent(last.arg1) =>
        /\ last.result.kind = "return"
        /\ resolvers = <<last.result.value>>
        /\ LET u == last.result.value
               a == last.arg0
           IN  IF a.t = "function"
               THEN /\ u.initializer = a
                    /\ u.options = EmptyOptions
                    /\ FirstCall(u, Str("provide"), Undefined) =
                          IF Absent(a.ret) THEN Throw(NotInitializedError(Sym(1)))
                          ELSE Return(a.ret)
                    /\ FirstCall(u, Undefined, Undefined) = Return(Undefined)
               ELSE /\ Absent(u.initializer)
                    /\ u.options = IF Absent(a) THEN EmptyOptions ELSE a
                    /\ FirstCall(u, Str("provide"), Undefined).kind = "throw"
                    /\ FirstCall(u, Str("provide"), Undefined).value.message[3]
                          = " is not initialized"
                    /\ FirstCall(u, Undefined, Undefined) =
                          IF ~Absent(Field(a, "injectDefault"))
                          THEN Return(IF a.injectDefault.t = "function"
                                      THEN a.injectDefault.ret ELSE a.injectDefault)
                          ELSE IF ~Absent(Field(a, "throwOnNoProvider"))
                          THEN Throw(a.throwOnNoProvider.ret)
                          ELSE Return(Undefined)

\* The single argument is a configuration with throwOnNoProvider.
C11_Witness ==
    /\ IsDefine /\ Absent(last.arg1)
    /\ last.arg0 = OptionsObj(Missing, Missing, Fn(Err("Error", <<"E1">>)))
    /\ resolvers # <<>>
    /\ Absent(resolvers[1].initializer)
    /\ FirstCall(resolvers[1], Undefined, Undefined) = Throw(Err("Error", <<"E1">>))

\* ---- C12 ----

\* The key of the binding: the `key` of the resolver's configuration, else
\* the symbol generated when the factory made resolver r.
BindingKey(u, r) ==
    IF ~Absent(Field(u.options, "key")) THEN u.options.key ELSE Sym(r)

\* C12: the factory fixes the binding key (the configured `key`, else a
\* generated symbol), and every host call a resolver call makes -- the provide
\* of a publish, the inject of a consume -- names that key, whatever the
\* call's arguments are, a `key` inside the per-call override included.
C12_OneBindingKey ==
    /\ IsDefine /\ last.result.kind = "return" =>
          last.result.value.injectKey = BindingKey(last.result.value, last.r)
    /\ IsCall =>
          /\ \A i \in DOMAIN last.ops : last.ops[i].key = BindingKey(U, last.r)
          /\ IsConsume => Len(last.ops) = 1
          /\ IsPublish /\ last.result.kind = "return" => Len(last.ops) = 1

\* A consume call passes an override with key "k" to a resolver whose key was
\* generated: the lookup still names the generated symbol.
C12_Witness ==
    /\ IsConsume
    /\ ~HasExplicitKey
    /\ ~Absent(GivenOverride)
    /\ GivenOverride.key = Str("k")
    /\ last.ops = <<InjectOp(Sym(1))>>

\* ---- C13 ----

\* What the last call's resolver gives, in the state the last call was made
\* in, when called with the given arguments.
Replay(arg0, arg1) == UseDependencyInjection(U, arg0, arg1, last.pre, last.scope)

\* C13: a consume call has the same outcome -- same value returned or same
\* error thrown, same host calls, same host context afterwards -- whether its
\* override configuration O (possibly none) is passed as `resolver(O)` or as
\* `resolver('inject', O)`.
C13_CallShapesAgree ==
    IsConsume =>
        /\ Replay(GivenOverride, Undefined).result = last.result
        /\ Replay(Str("inject"), GivenOverride).result = last.result
        /\ Replay(GivenOverride, Undefined) = Replay(Str("inject"), GivenOverride)
        /\ Absent(GivenOverride) =>
              /\ Replay(Undefined, Undefined).result = last.result
              /\ Replay(Str("inject"), Undefined).result = last.result

\* `resolver('inject', O)` with O overriding a throwing base policy by a
\* default, where `resolver(O)` gives the same default.
C13_Witness ==
    /\ IsConsume /\ last.arg0 = Str("inject")
    /\ last.arg1 = OptionsObj(Missing, Obj("d2"), Missing)
    /\ ~Absent(Field(U.options, "throwOnNoProvider"))
    /\ last.result = Return(Obj("d2"))
    /\ Replay(last.arg1, Undefined).result = Return(Obj("d2"))

\* ---- C14 ----

\* The value an injectDefault stands for: a function's result, else itself.
DefaultOf(injectDefault) ==
    IF injectDefault.t = "function" THEN injectDefault.ret ELSE injectDefault
\* The effective policy yields something when no publisher is found: a
\* default that is not absent, or an error to throw.
PolicyYields ==
    IF ~Absent(LastPolicy.injectDefault)
    THEN ~Absent(DefaultOf(LastPolicy.injectDefault))
    ELSE ~Absent(LastPolicy.throwOnNoProvider)

\* C14: a consume call whose effective policy is an injectDefault with a
\* non-absent default, or a throwOnNoProvider, never returns an absent value
\* (every published value having come from this resolver); a consume call
\* returns an absent value only when the effective policy is none or is an
\* injectDefault whose default is itself absent.
C14_NonAbsentUnderPolicy ==
    IsConsume /\ last.result.kind = "return" =>
        /\ PolicyYields => ~Absent(last.result.value)
        /\ Absent(last.result.value) =>
              /\ ~PublisherAbove(U.injectKey)
              /\ \/ Absent(LastPolicy.injectDefault) /\ Absent(LastPolicy.throwOnNoProvider)
                 \/ /\ ~Absent(LastPolicy.injectDefault)
                    /\ Absent(DefaultOf(LastPolicy.injectDefault))

\* Below a publisher, a consume call with base policy throwOnNoProvider
\* returns the published value.
C14_Witness ==
    /\ IsConsume /\ last.result.kind = "return"
    /\ Absent(GivenOverride)
    /\ ~Absent(Field(U.options, "throwOnNoProvider"))
    /\ Absent(Field(U.options, "injectDefault"))
    /\ PublisherAbove(U.injectKey)
    /\ ~Absent(last.result.value)

\* ---- C15 ----

\* Both policies are non-absent in the options merged by the last call.
BothMerged ==
    /\ ~Absent(Field(last.finalOptions, "injectDefault"))
    /\ ~Absent(Field(last.finalOptions, "throwOnNoProvider"))
BaseHasBoth ==
    /\ ~Absent(Field(U.options, "injectDefault"))
    /\ ~Absent(Field(U.options, "throwOnNoProvider"))
OverrideHasPolicy ==
    /\ ~Absent(GivenOverride)
    /\ \/ ~Absent(Field(GivenOverride, "injectDefault"))
       \/ ~Absent(Field(GivenOverride, "throwOnNoProvider"))

\* C15 as stated: the options merged at a consume call never hold both a
\* non-absent injectDefault and a non-absent throwOnNoProvider.
C15_Original == IsConsume => ~BothMerged

\* C15 amended: the options merged at a consume call hold both policies
\* exactly when the base configuration holds both and the override supplies
\* neither; whenever the override supplies a policy, or the base holds at most
\* one, at most one is non-absent. Where both are merged only injectDefault
\* acts: the call returns and throwOnNoProvider is never invoked.
C15_AtMostOneUnlessBaseHasBoth ==
    IsConsume =>
        /\ BothMerged <=> (BaseHasBoth /\ ~OverrideHasPolicy)
        /\ BothMerged => last.result.kind = "return"

\* The base configuration holds both policies and the override supplies a
\* throwOnNoProvider: the merged options keep only that one.
C15_Witness ==
    /\ IsConsume /\ BaseHasBoth
    /\ ~Absent(GivenOverride)
    /\ GivenOverride = OptionsObj(Missing, Missing, Fn(Err("Error", <<"E2">>)))
    /\ ~BothMerged
    /\ last.finalOptions.throwOnNoProvider = Fn(Err("Error", <<"E2">>))

\* ---- C16 ----

\* C16: a publish call either throws (the TypeError or "is not initialized")
\* without any host write, or makes exactly one host write, of a non-absent
\* value under the binding key in the calling scope, and returns that value;
\* so the host context never holds an absent value.
C16_PublishWritesOnceOrFails ==
    /\ IsPublish =>
          \/ /\ last.result.kind = "throw"
             /\ \/ last.result.value = SecondArgTypeError
                \/ /\ last.result.value.name = "Error"
                   /\ last.result.value.message = NotInitializedMessage
             /\ last.ops = <<>>
             /\ provides = last.pre
          \/ /\ last.result.kind = "return"
             /\ ~Absent(last.result.value)
             /\ last.ops = <<ProvideOp(BindingKey(U, last.r), last.result.value)>>
             /\ provides =
                   {e \in last.pre :
                        ~(e.scope = last.scope /\ e.key = BindingKey(U, last.r))}
                   \cup {[scope |-> last.scope, key |-> BindingKey(U, last.r),
                          value |-> last.result.value]}
    /\ \A e \in provides : ~Absent(e.value)

\* A publish call replaces the value its scope had attached before.
C16_Witness ==
    /\ IsPublish /\ last.result = Return(Obj("v1"))
    /\ [scope |-> last.scope, key |-> U.injectKey, value |-> Obj("v0")] \in last.pre
    /\ [scope |-> last.scope, key |-> U.injectKey, value |-> Obj("v1")] \in provides
    /\ Cardinality(provides) = Cardinality(last.pre)

\* ---- C17 ----

\* C17: a consume call -- returning a published value, a default or
\* undefined, or throwing -- makes no host write and leaves the host context
\* as it was; a default it returns is not attached, so a lookup of the key
\* from the calling scope or from any scope below it finds afterwards what it
\* found before.
C17_ConsumeLeavesContext ==
    IsConsume =>
        /\ provides = last.pre
        /\ \A i \in DOMAIN last.ops : last.ops[i].op = "inject"
        /\ \A s \in Scopes :
              s >= last.scope =>
                  inject(provides, s, U.injectKey) = inject(last.pre, s, U.injectKey)

\* A default is returned in a scope with no publisher above, and a consume
\* call without policy in the child scope would still find nothing.
C17_Witness ==
    /\ IsConsume /\ last.scope = 1
    /\ ~PublisherAbove(U.injectKey)
    /\ last.result = Return(Obj("d2"))
    /\ provides = last.pre
    /\ inject(provides, 2, U.injectKey) = Undefined

\* ---- C18 ----

\* What `resolver()` is to give under base options `options`.
ByBasePolicy(options, key, prov, scope) ==
    IF \E e \in prov : e.key = key /\ e.scope < scope
    THEN Return(inject(prov, scope, key))
    ELSE IF ~Absent(Field(options, "injectDefault"))
    THEN Return(DefaultOf(options.injectDefault))
    ELSE IF ~Absent(Field(options, "throwOnNoProvider"))
    THEN Throw(options.throwOnNoProvider.ret)
    ELSE Return(Undefined)

\* What `resolver('provide')` is to give with bound initializer `initializer`.
ByBoundInitializer(initializer, key) ==
    IF initializer.t = "function" /\ ~Absent(initializer.ret)
    THEN Return(initializer.ret)
    ELSE Throw(NotInitializedError(key))

\* C18: resolver calls, with or without override, returning or throwing,
\* leave the resolver's base configuration, bound initializer and key as the
\* factory made them; so after any call a consume call without override
\* resolves by the base policy given to the factory, and a publish call
\* without override uses the bound initializer.
C18_OverrideIsPerCall ==
    /\ resolvers = created
    /\ IsCall =>
          LET made == created[last.r]
          IN  /\ \A s \in Scopes :
                    UseDependencyInjection(U, Undefined, Undefined, provides, s).result
                        = ByBasePolicy(made.options, made.injectKey, provides, s)
              /\ UseDependencyInjection(U, Str("provide"), Undefined,
                                         provides, last.scope).result
                    = ByBoundInitializer(made.initializer, made.injectKey)
              /\ PlainConsume =>
                    last.result = ByBasePolicy(made.options, made.injectKey,
                                               last.pre, last.scope)

\* After a consume call whose override injectDefault beat the base
\* throwOnNoProvider, `resolver()` throws the base error again.
C18_Witness ==
    /\ IsConsume
    /\ GivenOverride = OptionsObj(Missing, Fn(Obj("d2")), Missing)
    /\ last.result = Return(Obj("d2"))
    /\ created[1].options = OptionsObj(Missing, Missing, Fn(Err("Error", <<"E1">>)))
    /\ U.options = created[1].options
    /\ UseDependencyInjection(U, Undefined, Undefined, provides, last.scope).result
          = Throw(Err("Error", <<"E1">>))

\* ---- C19 ----

GeneratedKey(r) == Absent(Field(created[r].options, "key"))

\* The host context without what was attached under `key`.
Without(prov, key) == {e \in prov : e.key # key}

\* C19: two resolvers made by separate factory calls without an explicit key
\* have different binding keys, and a consume call on one gives what it would
\* give had nothing been published through the other.
C19_GeneratedKeysApart ==
    \A r1, r2 \in 1 .. Len(resolvers) :
        (r1 # r2 /\ GeneratedKey(r1) /\ GeneratedKey(r2)) =>
            /\ resolvers[r1].injectKey # resolvers[r2].injectKey
            /\ (IsConsume /\ last.r = r1) =>
                  /\ last.result =
                        UseDependencyInjection(
                            U, last.arg0, last.arg1,
                            Without(last.pre, resolvers[r2].injectKey),
                            last.scope).result
                  /\ Publishers(last.pre, last.scope, U.injectKey) = {} =>
                        last.result =
                            UseDependencyInjection(U, last.arg0, last.arg1,
                                                   {}, last.scope).result

\* The first resolver published in an ancestor scope; `resolver()` on the
\* second, which has no policy, returns undefined.
C19_Witness ==
    /\ Len(resolvers) = 2
    /\ GeneratedKey(1) /\ GeneratedKey(2)
    /\ PlainConsume /\ last.r = 2
    /\ Publishers(last.pre, last.scope, resolvers[1].injectKey) # {}
    /\ Publishers(last.pre, last.scope, resolvers[2].injectKey) = {}
    /\ last.result = Return(Undefined)

====
